---- MODULE Spec2Model ----
(***************************************************************************)
(* Flash card application (src/main.py): the word pool, the counters, the  *)
(* two CSV files, the canvas texts, the restart button and the flip timer, *)
(* driven by the Tk callbacks.                                             *)
(*                                                                         *)
(* A word entry (one record of DataFrame.to_dict(orient='records')) is the *)
(* pair <<Swedish, English>>; the empty dict {} is <<>>.  Cells are plain  *)
(* words, which pandas reads back as the strings it wrote.                 *)
(***************************************************************************)
EXTENDS Integers, Sequences, FiniteSets, Bags, TLC

\* Longest word list held by either CSV file.
MaxWords == 2
\* Cap on the two guess counters.
MaxCount == 3

Words == { <<"hej", "hello">>, <<"tack", "thanks">> }

Swedish(word) == word[1]
English(word) == word[2]

WordLists == UNION { [1..n -> Words] : n \in 0..MaxWords }

Range(list) == { list[i] : i \in 1..Len(list) }

BagOfList(list) == [ w \in Range(list) |-> Cardinality({ i \in 1..Len(list) : list[i] = w }) ]

(***************************************************************************)
(* Files.  "missing": no such file; "blank": the file holds no header line *)
(* (zero bytes or a lone newline); "csv": the header row Swedish,English   *)
(* followed by rows.                                                       *)
(***************************************************************************)
MissingFile == [kind |-> "missing", rows |-> <<>>]
BlankFile == [kind |-> "blank", rows |-> <<>>]
CsvFile(rows) == [kind |-> "csv", rows |-> rows]

Files == {MissingFile, BlankFile} \cup { CsvFile(l) : l \in WordLists }

\* read_csv with the first data row taken for a second header line.
read_csv_skips_row(file) ==
    CASE file.kind = "missing" -> [raised |-> "FileNotFoundError", records |-> <<>>]
      [] file.kind = "blank" -> [raised |-> "EmptyDataError", records |-> <<>>]
      [] OTHER -> [raised |-> "none",
                   records |-> IF file.rows = <<>> THEN <<>> ELSE Tail(file.rows)]

\* pandas.read_csv(path).to_dict(orient='records'), or the exception raised.
read_csv(file) ==
    CASE file.kind = "missing" -> [raised |-> "FileNotFoundError", records |-> <<>>]
      [] file.kind = "blank" -> [raised |-> "EmptyDataError", records |-> <<>>]
      [] OTHER -> [raised |-> "none", records |-> file.rows]

\* to_csv writing the header row even for an empty list.
to_csv_keeps_header(records) == CsvFile(records)

\* to_csv losing the last record.
to_csv_drops_last(records) ==
    IF Len(records) <= 1 THEN BlankFile
    ELSE CsvFile(SubSeq(records, 1, Len(records) - 1))

\* pandas.DataFrame(records).to_csv(path, index=False): a frame built from an
\* empty list has no columns, so only the line terminator is written.
to_csv(records) ==
    IF records = <<>> THEN BlankFile ELSE CsvFile(records)

\* A removal that drops every item equal to x.
list_remove_all(list, x) == SelectSeq(list, LAMBDA w : w # x)

\* list.remove(x): drops the first item equal to x.
list_remove(list, x) ==
    LET i == CHOOSE k \in 1..Len(list) :
                 /\ list[k] = x
                 /\ \A j \in 1..(k - 1) : list[j] # x
    IN  [ k \in 1..(Len(list) - 1) |-> IF k < i THEN list[k] ELSE list[k + 1] ]

\* A load that reads the canonical file first, whatever the progress file holds.
load_to_learn_eager(progress, original) ==
    LET data == read_csv(progress)
        original_data == read_csv(original)
    IN  IF original_data.raised # "none" \/ data.raised # "none"
        THEN original_data
        ELSE data

\* The try/except/else at module level: the pool the session starts with.
load_to_learn(progress, original) ==
    LET data == read_csv(progress)
        original_data == read_csv(original)
    IN  IF data.raised \in {"FileNotFoundError", "EmptyDataError"}
        THEN original_data
        ELSE data

TimerIds == {"after#0", "after#1", "after#2"}

\* window.after: an identifier that names no callback still scheduled.
new_timer(pending, old) == CHOOSE id \in TimerIds : id \notin pending \cup {old}

VARIABLES
    pc,                    \* "start", "mainloop" or "crashed"
    words_to_learn_csv,    \* the file at WORDS_TO_LEARN
    swe_words_csv,         \* the file at SWEDISH_WORDS_FILE
    to_learn,
    current_word,
    total_words_guessed,
    total_correct_guesses,
    flip_timer,            \* identifier held by the global flip_timer
    after_pending,         \* identifiers of the callbacks Tk still has scheduled
    canvas_img,            \* "front" or "back"
    card_title,
    card_word,
    card_correct_guesses,  \* <<correct, guessed>> as drawn, <<>> when empty
    restart_button,        \* TRUE while the button is placed on the window
    csv_write,             \* outcome of to_csv in the latest callback
    event                  \* the latest callback Tk dispatched

vars == << pc, words_to_learn_csv, swe_words_csv, to_learn, current_word,
           total_words_guessed, total_correct_guesses, flip_timer, after_pending,
           canvas_img, card_title, card_word, card_correct_guesses,
           restart_button, csv_write, event >>

files == << words_to_learn_csv, swe_words_csv >>
counters == << total_words_guessed, total_correct_guesses >>
timers == << flip_timer, after_pending >>
canvas == << canvas_img, card_title, card_word, card_correct_guesses >>

\* Module state before the loading code runs (lines 51-57, 194-196, 211).
Globals ==
    /\ to_learn = <<>>
    /\ current_word = <<>>
    /\ total_words_guessed = 0
    /\ total_correct_guesses = 0
    /\ flip_timer = "unset"
    /\ after_pending = {}
    /\ canvas_img = "front"
    /\ card_title = ""
    /\ card_word = ""
    /\ card_correct_guesses = <<>>
    /\ restart_button = FALSE
    /\ csv_write = "none"
    /\ event = "none"

Init ==
    /\ pc = "start"
    /\ words_to_learn_csv \in Files
    /\ swe_words_csv \in Files
    /\ Globals

\* all_completed leaving the card title as it was.
all_completed_keeps_title ==
    /\ card_title' = card_title
    /\ card_word' = "You have learned all words."
    /\ card_correct_guesses' = <<>>
    /\ restart_button' = TRUE

all_completed ==
    /\ card_title' = "Congratulations!"
    /\ card_word' = "You have learned all words."
    /\ card_correct_guesses' = <<>>
    /\ restart_button' = TRUE

\* next_card drawing the translation on the front of the card.
next_card_shows_english(pool, guessed, correct, timer, pending, restart) ==
    LET cancelled == pending \ {timer}
    IN  IF pool = <<>>
        THEN /\ all_completed
             /\ after_pending' = cancelled
             /\ UNCHANGED << current_word, canvas_img >>
             /\ flip_timer' = timer
             /\ total_words_guessed' = guessed
        ELSE \E i \in 1..Len(pool) :
             /\ current_word' = pool[i]
             /\ card_title' = "Swedish"
             /\ card_word' = English(pool[i])
             /\ card_correct_guesses' = <<correct, guessed>>
             /\ canvas_img' = "front"
             /\ total_words_guessed' = guessed + 1
             /\ flip_timer' = new_timer(cancelled, timer)
             /\ after_pending' = cancelled \cup {new_timer(cancelled, timer)}
             /\ restart_button' = restart

\* next_card() run on the given globals; it does not touch to_learn,
\* total_correct_guesses or the files.
next_card(pool, guessed, correct, timer, pending, restart) ==
    LET cancelled == pending \ {timer}
    IN  IF pool = <<>>
        THEN /\ all_completed
             /\ after_pending' = cancelled
             /\ UNCHANGED << current_word, canvas_img >>
             /\ flip_timer' = timer
             /\ total_words_guessed' = guessed
        ELSE \E i \in 1..Len(pool) :
             /\ current_word' = pool[i]
             /\ card_title' = "Swedish"
             /\ card_word' = Swedish(pool[i])
             /\ card_correct_guesses' = <<correct, guessed>>
             /\ canvas_img' = "front"
             /\ total_words_guessed' = guessed + 1
             /\ flip_timer' = new_timer(cancelled, timer)
             /\ after_pending' = cancelled \cup {new_timer(cancelled, timer)}
             /\ restart_button' = restart

\* Lines 60-73 and 177-214: load the pool, build the window, first card.
Startup ==
    /\ pc = "start"
    /\ event' = "startup"
    /\ UNCHANGED << files, total_correct_guesses, csv_write >>
    /\ LET loaded == load_to_learn(words_to_learn_csv, swe_words_csv)
           first == new_timer({}, flip_timer)
       IN  IF loaded.raised # "none"
           THEN /\ pc' = "crashed"
                /\ UNCHANGED << to_learn, current_word, total_words_guessed,
                                timers, canvas, restart_button >>
           ELSE /\ pc' = "mainloop"
                /\ to_learn' = loaded.records
                /\ next_card(loaded.records, total_words_guessed,
                             total_correct_guesses, first, {first}, restart_button)

\* The wrong button putting the skipped card back at the end of the pool.
wrong_button_requeues ==
    /\ pc = "mainloop"
    /\ total_words_guessed < MaxCount
    /\ event' = "next_card"
    /\ csv_write' = "none"
    /\ to_learn' = IF current_word = <<>> THEN to_learn
                   ELSE Append(to_learn, current_word)
    /\ next_card(to_learn', total_words_guessed, total_correct_guesses,
                 flip_timer, after_pending, restart_button)
    /\ UNCHANGED << pc, files, total_correct_guesses >>

\* The wrong button counting the skipped card as a correct guess.
wrong_button_counts_correct ==
    /\ pc = "mainloop"
    /\ total_words_guessed < MaxCount
    /\ total_correct_guesses < MaxCount
    /\ event' = "next_card"
    /\ csv_write' = "none"
    /\ total_correct_guesses' = total_correct_guesses + 1
    /\ next_card(to_learn, total_words_guessed, total_correct_guesses,
                 flip_timer, after_pending, restart_button)
    /\ UNCHANGED << pc, files, to_learn >>

\* The wrong button: command=next_card.
wrong_button ==
    /\ pc = "mainloop"
    /\ total_words_guessed < MaxCount
    /\ event' = "next_card"
    /\ csv_write' = "none"
    /\ next_card(to_learn, total_words_guessed, total_correct_guesses,
                 flip_timer, after_pending, restart_button)
    /\ UNCHANGED << pc, files, to_learn, total_correct_guesses >>

\* A scheduled flip_card fires.
flip_card ==
    /\ pc = "mainloop"
    /\ \E id \in after_pending : after_pending' = after_pending \ {id}
    /\ event' = "flip_card"
    /\ csv_write' = "none"
    /\ IF current_word = <<>>
       THEN UNCHANGED canvas
       ELSE /\ canvas_img' = "back"
            /\ card_title' = "English"
            /\ card_word' = English(current_word)
            /\ UNCHANGED card_correct_guesses
    /\ UNCHANGED << pc, files, to_learn, current_word, counters, flip_timer,
                    restart_button >>

\* The right button: command=known_word.
known_word ==
    /\ pc = "mainloop"
    /\ total_words_guessed < MaxCount
    /\ total_correct_guesses < MaxCount
    /\ event' = "known_word"
    /\ total_correct_guesses' = total_correct_guesses + 1
    /\ UNCHANGED << pc, swe_words_csv >>
    /\ IF current_word \notin Range(to_learn)
       THEN \* ValueError
            /\ all_completed
            /\ csv_write' = "none"
            /\ UNCHANGED << words_to_learn_csv, to_learn, current_word,
                            total_words_guessed, timers, canvas_img >>
       ELSE /\ to_learn' = list_remove(to_learn, current_word)
            /\ \/ /\ csv_write' = "ok"
                  /\ words_to_learn_csv' = to_csv(to_learn')
                  /\ next_card(to_learn', total_words_guessed,
                               total_correct_guesses', flip_timer, after_pending,
                               restart_button)
               \/ \* to_csv raises OSError: the callback ends here
                  /\ csv_write' = "error"
                  /\ words_to_learn_csv' \in {words_to_learn_csv, BlankFile}
                  /\ UNCHANGED << current_word, total_words_guessed, timers,
                                  canvas, restart_button >>

\* start_over saving the reseeded pool to the progress file.
start_over_saves ==
    /\ pc = "mainloop"
    /\ restart_button
    /\ event' = "start_over"
    /\ csv_write' = "none"
    /\ UNCHANGED << pc, swe_words_csv >>
    /\ LET words_data == read_csv(swe_words_csv)
       IN  IF words_data.raised # "none"
           THEN UNCHANGED << to_learn, current_word, counters, timers, canvas,
                             restart_button, words_to_learn_csv >>
           ELSE /\ to_learn' = words_data.records
                /\ words_to_learn_csv' = to_csv(words_data.records)
                /\ total_correct_guesses' = 0
                /\ next_card(words_data.records, 0, 0, flip_timer,
                             after_pending, FALSE)

\* The restart button: command=start_over.  It can be clicked while placed.
start_over ==
    /\ pc = "mainloop"
    /\ restart_button
    /\ event' = "start_over"
    /\ csv_write' = "none"
    /\ UNCHANGED << pc, files >>
    /\ LET words_data == read_csv(swe_words_csv)
       IN  IF words_data.raised # "none"
           THEN UNCHANGED << to_learn, current_word, counters, timers, canvas,
                             restart_button >>
           ELSE /\ to_learn' = words_data.records
                /\ total_correct_guesses' = 0
                /\ next_card(words_data.records, 0, 0, flip_timer,
                             after_pending, FALSE)

\* The window is closed: mainloop returns and the process ends.  Running the
\* program again starts from the module's initial globals and the files.
close_window ==
    /\ pc = "mainloop"
    /\ pc' = "start"
    /\ UNCHANGED files
    /\ to_learn' = <<>>
    /\ current_word' = <<>>
    /\ total_words_guessed' = 0
    /\ total_correct_guesses' = 0
    /\ flip_timer' = "unset"
    /\ after_pending' = {}
    /\ canvas_img' = "front"
    /\ card_title' = ""
    /\ card_word' = ""
    /\ card_correct_guesses' = <<>>
    /\ restart_button' = FALSE
    /\ csv_write' = "none"
    /\ event' = "none"

Next ==
    \/ Startup
    \/ wrong_button
    \/ flip_card
    \/ known_word
    \/ start_over
    \/ close_window

Spec == Init /\ [][Next]_vars

(***************************************************************************)
(* A session in which the user keeps pressing the right button and every   *)
(* write succeeds: no restart, no closing of the window, and the wrong     *)
(* button only while the counters leave room for marking the whole pool.   *)
(***************************************************************************)
MarkKnown == known_word /\ csv_write' # "error"

Skip == wrong_button /\ total_words_guessed + Len(to_learn) < MaxCount

LiveNext ==
    \/ Startup
    \/ MarkKnown
    \/ Skip
    \/ flip_card

LiveSpec == Init /\ [][LiveNext]_vars /\ WF_vars(MarkKnown)

TypeOK ==
    /\ pc \in {"start", "mainloop", "crashed"}
    /\ words_to_learn_csv \in Files
    /\ swe_words_csv \in Files
    /\ to_learn \in WordLists
    /\ current_word \in Words \cup {<<>>}
    /\ total_words_guessed \in 0..MaxCount
    /\ total_correct_guesses \in 0..MaxCount
    /\ after_pending \subseteq TimerIds
    /\ restart_button \in BOOLEAN

(***************************************************************************)
(* Properties.                                                             *)
(***************************************************************************)
Completed == card_title = "Congratulations!"
CanonicalReadable == read_csv(swe_words_csv).raised = "none"
CanonicalList == read_csv(swe_words_csv).records

\* C1: in every reachable state total_correct_guesses is at most
\* total_words_guessed.
CorrectAtMostGuessed == total_correct_guesses <= total_words_guessed

\* C2 (as stated): every known_word call shortens to_learn by exactly one
\* entry, equal to the current_word held before the call.
KnownWordAlwaysRemovesOne ==
    [][event' = "known_word" =>
          /\ Len(to_learn') = Len(to_learn) - 1
          /\ BagOfList(to_learn') (+) SetToBag({current_word}) = BagOfList(to_learn)
      ]_vars

\* C2 (amended): a known_word call made while current_word is in to_learn
\* shortens to_learn by exactly one entry equal to current_word, keeping every
\* other entry (other copies of current_word included); a call made while
\* current_word is not in to_learn leaves to_learn as it is.
KnownWordRemovesOne ==
    [][event' = "known_word" =>
          IF current_word \in Range(to_learn)
          THEN /\ Len(to_learn') = Len(to_learn) - 1
               /\ BagOfList(to_learn') (+) SetToBag({current_word})
                      = BagOfList(to_learn)
          ELSE to_learn' = to_learn
      ]_vars

\* C2 witness: known_word has removed one copy of current_word and another
\* copy is still in to_learn (the write failed, so current_word still names
\* the removed entry).
KnownWordRemovedOneCopy ==
    /\ event = "known_word"
    /\ csv_write = "error"
    /\ current_word \in Range(to_learn)

\* C3 (as stated): after start_over returns, to_learn is as long as the
\* canonical list and both counters are 0.
StartOverZeroCounters ==
    [][event' = "start_over" /\ CanonicalReadable =>
          /\ Len(to_learn') = Len(swe_words_csv.rows)
          /\ total_words_guessed' = 0
          /\ total_correct_guesses' = 0
      ]_vars

\* C3 (amended): after start_over returns, to_learn is as long as the
\* canonical list, total_correct_guesses is 0, and total_words_guessed is 1
\* (the first card of the new session is counted), or 0 when the canonical
\* list is empty.
StartOverResets ==
    [][event' = "start_over" /\ CanonicalReadable =>
          /\ Len(to_learn') = Len(swe_words_csv.rows)
          /\ total_words_guessed' = (IF swe_words_csv.rows = <<>> THEN 0 ELSE 1)
          /\ total_correct_guesses' = 0
      ]_vars

\* C3 witness: start_over has returned with a reseeded, non-empty pool.
StartOverDone ==
    /\ event = "start_over"
    /\ CanonicalReadable
    /\ to_learn = swe_words_csv.rows
    /\ Len(to_learn) = MaxWords
    /\ counters = << 1, 0 >>

\* The startup load of a progress file gives back the contents of to_learn.
LoadsBack(file) ==
    LET back == load_to_learn(file, swe_words_csv)
    IN  /\ back.raised = "none"
        /\ BagOfList(back.records) = BagOfList(to_learn)

\* The startup load of a progress file falls back to the canonical file.
LoadsCanonical(file) ==
    LET back == load_to_learn(file, swe_words_csv)
    IN  /\ back.raised = read_csv(swe_words_csv).raised
        /\ back.records = CanonicalList

ZeroRowProgressLoadsCanonical ==
    [][/\ event' = "startup"
       /\ pc' = "mainloop"
       /\ CanonicalReadable
       /\ words_to_learn_csv.rows = <<>>
       => to_learn' = CanonicalList
      ]_vars

\* C6: the wrong button leaves to_learn, total_correct_guesses and the
\* progress file unchanged, and adds 1 to total_words_guessed exactly when a
\* card is selected (to_learn not empty), else 0.
WrongButtonFrame ==
    [][event' = "next_card" =>
          /\ to_learn' = to_learn
          /\ total_correct_guesses' = total_correct_guesses
          /\ words_to_learn_csv' = words_to_learn_csv
          /\ total_words_guessed' =
                 total_words_guessed + (IF to_learn = <<>> THEN 0 ELSE 1)
      ]_vars

\* C6 witness: the wrong button has advanced a session that still has words.
WrongButtonPressed ==
    /\ event = "next_card"
    /\ to_learn # <<>>
    /\ total_words_guessed > total_correct_guesses + 1

\* C7: known_word run while current_word is still the initial empty value
\* changes nothing: pool, counters, progress file and display stay as they are.
KnownWordWithoutWordIsNoOp ==
    [][event' = "known_word" /\ current_word = <<>> =>
          UNCHANGED << to_learn, counters, words_to_learn_csv, canvas,
                       restart_button >>
      ]_vars

\* C8: the completion message is shown only while to_learn is empty, and once
\* shown it stays through the wrong button, the right button and the timer.
CompletionOnlyWhenEmpty ==
    [][/\ Completed' => to_learn' = <<>>
       /\ Completed /\ event' \in {"next_card", "known_word", "flip_card"}
              => Completed'
      ]_vars

FailedWriteIsRetried ==
    [][/\ event' = "known_word" /\ csv_write' = "error"
              => Len(to_learn') = Len(to_learn) - 1
       /\ event' = "known_word" /\ csv_write = "error"
              => csv_write' # "none"
      ]_vars

TimerNeverStale ==
    [][/\ Cardinality(after_pending') <= 1
       /\ event' = "flip_card" =>
              /\ card_title = "Swedish"
              /\ card_word = Swedish(current_word)
              /\ card_word' = English(current_word)
      ]_vars

\* A step in which next_card() ran: the wrong button, the startup, a
\* start_over that read the canonical file, a known_word that saved.
NextCardRan ==
    \/ event' = "next_card"
    \/ event' = "startup" /\ pc' = "mainloop"
    \/ event' = "start_over" /\ CanonicalReadable
    \/ event' = "known_word" /\ csv_write' = "ok"

\* C13: next_card on an empty pool shows the completion message and changes
\* neither total_words_guessed nor current_word; on a non-empty pool it sets
\* current_word to an entry of the pool, adds exactly 1 to total_words_guessed
\* and shows the front of the card with the Swedish text; called by the wrong
\* button it leaves to_learn and total_correct_guesses unchanged.
NextCardSelects ==
    [][/\ NextCardRan =>
              LET guessed == IF event' = "start_over" THEN 0
                             ELSE total_words_guessed
              IN  IF to_learn' = <<>>
                  THEN /\ Completed'
                       /\ total_words_guessed' = guessed
                       /\ current_word' = current_word
                  ELSE /\ current_word' \in Range(to_learn')
                       /\ total_words_guessed' = guessed + 1
                       /\ card_title' = "Swedish"
                       /\ card_word' = Swedish(current_word')
                       /\ canvas_img' = "front"
       /\ event' = "next_card" =>
              UNCHANGED << to_learn, total_correct_guesses >>
      ]_vars

\* C13 witness: the wrong button has run next_card on an emptied pool, which
\* shows the completion message and keeps the counters of the session.
NextCardOnEmptyPool ==
    /\ event = "next_card"
    /\ to_learn = <<>>
    /\ Completed
    /\ total_words_guessed > 0
    /\ current_word # <<>>

\* C14: start_over replaces to_learn by the rows of the canonical file and
\* leaves the progress file as it was; the progress file changes in no
\* callback other than known_word.
StartOverDoesNotSave ==
    [][/\ event' = "start_over" =>
              /\ words_to_learn_csv' = words_to_learn_csv
              /\ CanonicalReadable => to_learn' = swe_words_csv.rows
       /\ words_to_learn_csv' # words_to_learn_csv => event' = "known_word"
      ]_vars

\* C14 witness: start_over has reseeded the pool while the progress file
\* still holds what the last known_word wrote for the emptied pool.
RestartedWithOldProgress ==
    /\ event = "start_over"
    /\ to_learn # <<>>
    /\ to_learn = CanonicalList
    /\ words_to_learn_csv = BlankFile

\* C15: current_word changes only by a selection, which takes it from
\* to_learn, and a current_word that is set stays in to_learn until a
\* known_word removes it (after which it stays as it is until the next
\* selection).
CurrentWordInPool ==
    [][/\ current_word' # current_word /\ current_word' # <<>>
              => NextCardRan /\ current_word' \in Range(to_learn')
       /\ current_word' # <<>> /\ current_word' \notin Range(to_learn') =>
              /\ current_word' = current_word
              /\ \/ /\ event' = "known_word"
                    /\ current_word \in Range(to_learn)
                    /\ Len(to_learn') = Len(to_learn) - 1
                 \/ current_word \notin Range(to_learn)
      ]_vars

\* C16: the wrong button, the right button and the timer leave to_learn as it
\* is or remove entries from it, never add any; after a load from the
\* canonical file (startup without saved progress, or start_over) every entry
\* of to_learn is an entry of the canonical list.
PoolNeverGrows ==
    [][/\ event' \in {"next_card", "known_word", "flip_card"}
              => BagOfList(to_learn') \sqsubseteq BagOfList(to_learn)
       /\ event' = "start_over" =>
              IF CanonicalReadable
              THEN Range(to_learn') \subseteq Range(swe_words_csv.rows)
              ELSE to_learn' = to_learn
       /\ /\ event' = "startup"
          /\ pc' = "mainloop"
          /\ words_to_learn_csv.kind \in {"missing", "blank"}
          => Range(to_learn') \subseteq Range(swe_words_csv.rows)
      ]_vars

\* C16 witness: a pool loaded from the canonical file has shrunk by one entry
\* and is still part of the canonical list.
PoolShrunk ==
    /\ event = "known_word"
    /\ words_to_learn_csv = CsvFile(to_learn)
    /\ CanonicalReadable
    /\ Len(to_learn) + 1 = Len(CanonicalList)
    /\ BagOfList(to_learn) \sqsubseteq BagOfList(CanonicalList)
    /\ total_correct_guesses = 1

\* C17: while the user keeps marking the displayed word known and the writes
\* succeed, the completion message is eventually shown; every such call
\* removes exactly one entry, and the completion message appears in the call
\* that empties to_learn, so after as many calls as to_learn had entries.
KeepMarkingCompletes ==
    /\ (pc = "mainloop") ~> Completed
    /\ [][event' = "known_word" =>
              IF Completed
              THEN Completed' /\ to_learn = <<>> /\ to_learn' = <<>>
              ELSE /\ current_word \in Range(to_learn)
                   /\ Len(to_learn') = Len(to_learn) - 1
                   /\ Completed' <=> to_learn' = <<>>
         ]_vars

\* C17 witness: the call that removed the last of MaxWords entries has shown
\* the completion message.
MarkedAllKnown ==
    /\ event = "known_word"
    /\ csv_write = "ok"
    /\ Completed
    /\ to_learn = <<>>
    /\ total_correct_guesses = MaxWords

\* C18: no flip timer is pending while the completion message is shown or
\* while current_word is still the initial empty value.
NoTimerAtCompletion ==
    (Completed \/ current_word = <<>>) => after_pending = {}

\* C19: while the window is open, the restart button is placed exactly when
\* the completion message is shown.
RestartOfferedIffCompleted ==
    pc = "mainloop" => (restart_button <=> Completed)
====
